---- MODULE Spec2Model ----
(***************************************************************************)
(* Model of helpers.py: split_and_select_random_data (with its nested      *)
(* get_random_labeled_examples) and load_mnist.                            *)
(*                                                                         *)
(* Arrays are sequences (1-based); the indices the code computes (class    *)
(* indices, positions drawn by random.sample) keep Python's 0-based        *)
(* values, so a[i] of the code is a[i + 1] here.  A label matrix is a      *)
(* sequence of rows, a row a sequence of 0/1 entries, one per column.      *)
(* The image of row i of the training set is the number i, and likewise    *)
(* for the test set, so that an output row names the input row it was      *)
(* copied from.                                                            *)
(***************************************************************************)
EXTENDS Integers, Sequences, FiniteSets, TLC

\* Bounds of the explored inputs.
MaxRows == 5
MaxTestRows == 2
MaxExamples == 2
NumCols == 3
MaxLabels == 2

\* Constants of load_mnist.
LabelsOffset == 8
ImagesOffset == 16
Pixels == 784
Side == 28
MaxGray == 255
MnistClasses == 10

VARIABLES
    pc,                     \* position in split_and_select_random_data
    x, y, xtest, ytest,     \* arguments
    num_target_classes, num_examples_per_class,
    target_classes,         \* line 78
    target_bools, x_target_all, y_target_all, x_auxiliary, y_auxiliary,
    test_bools, x_test, y_test,
    x_target_labeled, y_target, x_target_unlabeled,
    drawn,                  \* idx of every get_random_labeled_examples call so far
    result,                 \* the returned tuple, or the raised exception
    load_pc,                \* position in load_mnist
    labels_file, images_file,   \* the decompressed bytes of the two files
    normalize, return_4d_tensor, one_hot,
    labels, images,
    load_result             \* the returned pair, or the raised exception

sampler_vars ==
    <<pc, x, y, xtest, ytest, num_target_classes, num_examples_per_class,
      target_classes, target_bools, x_target_all, y_target_all,
      x_auxiliary, y_auxiliary, test_bools, x_test, y_test,
      x_target_labeled, y_target, x_target_unlabeled, drawn, result>>

loader_vars ==
    <<load_pc, labels_file, images_file, normalize, return_4d_tensor, one_hot,
      labels, images, load_result>>

vars == <<sampler_vars, loader_vars>>

----------------------------------------------------------------------------
(* numpy / random primitives *)

\* range(n)
Range(n) == 0 .. (n - 1)

\* Mutants of random.sample: one that returns min(k, n) elements instead of
\* raising, one that draws with replacement (random.choices).
RandomSampleTruncating(n, k) ==
    LET m == IF k > n THEN n ELSE k
    IN  {s \in [1 .. m -> Range(n)] : \A i, j \in 1 .. m : i # j => s[i] # s[j]}

RandomSampleWithReplacement(n, k) == [1 .. k -> Range(n)]

\* random.sample(range(n), k): the lists the call can return, every list of
\* k pairwise distinct elements of range(n).  The call raises ValueError
\* when k > n or k < 0: then, and only then, the set is empty.
RandomSample(n, k) ==
    IF k > n \/ k < 0 THEN {}
    ELSE {s \in [1 .. k -> Range(n)] : \A i, j \in 1 .. k : i # j => s[i] # s[j]}

\* Mutant of np.concatenate: the new block goes first.
ConcatenateSwapped(a, b) == b \o a

\* np.concatenate([a, b])
Concatenate(a, b) == a \o b

\* a[mask] for a boolean mask: the rows of a where mask is True, in order.
RECURSIVE BoolIndex(_, _)
BoolIndex(a, mask) ==
    IF a = <<>> THEN <<>>
    ELSE LET rest == BoolIndex(Tail(a), Tail(mask))
         IN  IF Head(mask) THEN <<Head(a)>> \o rest ELSE rest

\* Mutant of a[idx]: the last position is dropped (idx[:-1]).
TakeDropLast(a, idx) == [i \in 1 .. (Len(idx) - 1) |-> a[idx[i] + 1]]

\* a[idx] for a list of 0-based positions.
Take(a, idx) == [i \in 1 .. Len(idx) |-> a[idx[i] + 1]]

\* Mutant of ~mask: the negation is lost.
NotDropped(mask) == mask

\* ~mask
Not(mask) == [i \in 1 .. Len(mask) |-> ~mask[i]]

\* y[:, c] == 1
ColumnIsOne(ys, c) == [i \in 1 .. Len(ys) |-> ys[i][c + 1] = 1]

\* y[:, classes].sum(axis=1): per row, the sum over the listed columns.
RECURSIVE RowSum(_, _)
RowSum(row, classes) ==
    IF classes = <<>> THEN 0
    ELSE row[Head(classes) + 1] + RowSum(row, Tail(classes))

\* Mutants of the summation test: any 1 among the columns is enough
\* (sum >= 1); only the first listed column is looked at.
SumAtLeastOne(ys, classes) ==
    [i \in 1 .. Len(ys) |-> RowSum(ys[i], classes) >= 1]

SumIsOneFirstClass(ys, classes) ==
    [i \in 1 .. Len(ys) |-> RowSum(ys[i], <<Head(classes)>>) = 1]

\* y[:, classes].sum(axis=1) == 1
SumIsOne(ys, classes) ==
    [i \in 1 .. Len(ys) |-> RowSum(ys[i], classes) = 1]

\* Mutant of np.isin(np.arange(n), idx): positions taken as 1-based.
IsInOneBased(n, idx) == [i \in 1 .. n |-> \E j \in 1 .. Len(idx) : idx[j] = i]

\* np.isin(np.arange(n), idx)
IsIn(n, idx) == [i \in 1 .. n |-> \E j \in 1 .. Len(idx) : idx[j] = i - 1]

----------------------------------------------------------------------------
(* get_random_labeled_examples, for the drawn idx *)

ClassRows(xs, ys, c) == BoolIndex(xs, ColumnIsOne(ys, c))

GetRandomLabeledExamples(xs, ys, c, idx) ==
    LET x_c == BoolIndex(xs, ColumnIsOne(ys, c))
        y_c == BoolIndex(ys, ColumnIsOne(ys, c))
    IN  [x_labeled   |-> Take(x_c, idx),
         labels      |-> Take(y_c, idx),
         x_unlabeled |-> BoolIndex(x_c, Not(IsIn(Len(x_c), idx)))]

----------------------------------------------------------------------------
(* inputs *)

OneHotRows == {[j \in 1 .. NumCols |-> IF j = c THEN 1 ELSE 0] : c \in 1 .. NumCols}
BinaryRows == [1 .. NumCols -> {0, 1}]

Images(n) == [i \in 1 .. n |-> i]

None == <<>>

\* load_mnist is not running.
LoaderIdle ==
    /\ load_pc = "idle"
    /\ labels_file = None /\ images_file = None
    /\ normalize = FALSE /\ return_4d_tensor = FALSE /\ one_hot = FALSE
    /\ labels = None /\ images = None /\ load_result = None

InitWith(nTrain, trainRows, nTest, testRows, maxExamples) ==
    /\ LoaderIdle
    /\ pc = "draw_classes"
    /\ x = Images(nTrain)
    /\ y \in [1 .. nTrain -> trainRows]
    /\ xtest = Images(nTest)
    /\ ytest \in [1 .. nTest -> testRows]
    /\ num_target_classes \in 0 .. (NumCols + 1)
    /\ num_examples_per_class \in 1 .. maxExamples
    /\ target_classes = None
    /\ target_bools = None /\ x_target_all = None /\ y_target_all = None
    /\ x_auxiliary = None /\ y_auxiliary = None
    /\ test_bools = None /\ x_test = None /\ y_test = None
    /\ x_target_labeled = None /\ y_target = None /\ x_target_unlabeled = None
    /\ drawn = <<>>
    /\ result = None

\* One-hot labels, as the docstring of split_and_select_random_data asks.
Init == InitWith(MaxRows, OneHotRows, MaxTestRows, OneHotRows, MaxExamples)

\* Any 0/1 label matrix, one row and one example fewer each.
InitBinary ==
    InitWith(MaxRows - 1, BinaryRows, MaxTestRows - 1, BinaryRows, MaxExamples - 1)

----------------------------------------------------------------------------
(* split_and_select_random_data *)

\* lines 77-78, the draw succeeds
DrawClasses ==
    /\ pc = "draw_classes"
    /\ LET total_classes == Len(y[1])
       IN  target_classes' \in RandomSample(total_classes, num_target_classes)
    /\ pc' = "split"
    /\ UNCHANGED <<x, y, xtest, ytest, num_target_classes, num_examples_per_class,
                   target_bools, x_target_all, y_target_all, x_auxiliary,
                   y_auxiliary, test_bools, x_test, y_test, x_target_labeled,
                   y_target, x_target_unlabeled, drawn, result, loader_vars>>

\* lines 77-78, random.sample raises
DrawClassesRaises ==
    /\ pc = "draw_classes"
    /\ RandomSample(Len(y[1]), num_target_classes) = {}
    /\ pc' = "raised"
    /\ result' = <<"ValueError">>
    /\ UNCHANGED <<x, y, xtest, ytest, num_target_classes, num_examples_per_class,
                   target_classes, target_bools, x_target_all, y_target_all,
                   x_auxiliary, y_auxiliary, test_bools, x_test, y_test,
                   x_target_labeled, y_target, x_target_unlabeled, drawn, loader_vars>>

\* Mutant of line 87: the test mask is computed from the training labels.
TestBoolsFromTrain ==
    [i \in 1 .. Len(ytest) |-> RowSum(y[i], target_classes) = 1]

\* line 87
TestBools == SumIsOne(ytest, target_classes)

\* lines 81-89
SplitData ==
    /\ pc = "split"
    /\ target_bools' = SumIsOne(y, target_classes)
    /\ y_target_all' = BoolIndex(y, target_bools')
    /\ x_target_all' = BoolIndex(x, target_bools')
    /\ y_auxiliary' = BoolIndex(y, Not(target_bools'))
    /\ x_auxiliary' = BoolIndex(x, Not(target_bools'))
    /\ test_bools' = TestBools
    /\ x_test' = BoolIndex(xtest, test_bools')
    /\ y_test' = BoolIndex(ytest, test_bools')
    /\ pc' = "sample"
    /\ UNCHANGED <<x, y, xtest, ytest, num_target_classes, num_examples_per_class,
                   target_classes, x_target_labeled, y_target, x_target_unlabeled,
                   drawn, result, loader_vars>>

\* The class the next get_random_labeled_examples call is for: the loop of
\* lines 92-98 has made Len(drawn) calls.
NextClass == target_classes[Len(drawn) + 1]

\* lines 92 and 95-98: one call of get_random_labeled_examples and the
\* concatenation of its results (for the first class, the assignment).
SampleClass ==
    /\ pc = "sample"
    /\ Len(drawn) < Len(target_classes)
    /\ LET n == Len(ClassRows(x_target_all, y_target_all, NextClass))
       IN  \E idx \in RandomSample(n, num_examples_per_class) :
             LET r == GetRandomLabeledExamples(x_target_all, y_target_all,
                                               NextClass, idx)
             IN  /\ x_target_labeled' = Concatenate(x_target_labeled, r.x_labeled)
                 /\ y_target' = Concatenate(y_target, r.labels)
                 /\ x_target_unlabeled' =
                        Concatenate(x_target_unlabeled, r.x_unlabeled)
                 /\ drawn' = Append(drawn, idx)
    /\ UNCHANGED <<pc, x, y, xtest, ytest, num_target_classes,
                   num_examples_per_class, target_classes, target_bools,
                   x_target_all, y_target_all, x_auxiliary, y_auxiliary,
                   test_bools, x_test, y_test, result, loader_vars>>

\* line 69 raises inside a call of get_random_labeled_examples
SampleClassRaises ==
    /\ pc = "sample"
    /\ Len(drawn) < Len(target_classes)
    /\ RandomSample(Len(ClassRows(x_target_all, y_target_all, NextClass)),
                    num_examples_per_class) = {}
    /\ pc' = "raised"
    /\ result' = <<"ValueError">>
    /\ UNCHANGED <<x, y, xtest, ytest, num_target_classes, num_examples_per_class,
                   target_classes, target_bools, x_target_all, y_target_all,
                   x_auxiliary, y_auxiliary, test_bools, x_test, y_test,
                   x_target_labeled, y_target, x_target_unlabeled, drawn, loader_vars>>

\* line 92 with no class drawn (num_target_classes = 0): target_classes[0]
\* raises IndexError before any call of get_random_labeled_examples.
FirstClassRaises ==
    /\ pc = "sample"
    /\ target_classes = <<>>
    /\ pc' = "raised"
    /\ result' = <<"IndexError">>
    /\ UNCHANGED <<x, y, xtest, ytest, num_target_classes, num_examples_per_class,
                   target_classes, target_bools, x_target_all, y_target_all,
                   x_auxiliary, y_auxiliary, test_bools, x_test, y_test,
                   x_target_labeled, y_target, x_target_unlabeled, drawn, loader_vars>>

\* line 100, after the call of line 92 and the loop of lines 94-98
Return ==
    /\ pc = "sample"
    /\ target_classes # <<>>
    /\ Len(drawn) = Len(target_classes)
    /\ pc' = "returned"
    /\ result' = <<x_target_labeled, y_target, x_test, y_test,
                   x_target_unlabeled, x_auxiliary, y_auxiliary>>
    /\ UNCHANGED <<x, y, xtest, ytest, num_target_classes, num_examples_per_class,
                   target_classes, target_bools, x_target_all, y_target_all,
                   x_auxiliary, y_auxiliary, test_bools, x_test, y_test,
                   x_target_labeled, y_target, x_target_unlabeled, drawn, loader_vars>>

Next ==
    \/ DrawClasses
    \/ DrawClassesRaises
    \/ SplitData
    \/ SampleClass
    \/ SampleClassRaises
    \/ FirstClassRaises
    \/ Return

Spec == Init /\ [][Next]_vars

SpecBinary == InitBinary /\ [][Next]_vars

----------------------------------------------------------------------------
(* load_mnist *)

\* np.frombuffer(buf, dtype=np.uint8, offset=k): the bytes after the first
\* k; the call raises ValueError when k exceeds the buffer length.
FromBufferRaises(buf, k) == k > Len(buf)
FromBuffer(buf, k) == SubSeq(buf, k + 1, Len(buf))

\* Mutant of reshape: Fortran (column-major) order.
ReshapeColumnMajor(a, n, m) ==
    [i \in 1 .. n |-> [j \in 1 .. m |-> a[(j - 1) * n + i]]]

\* a.reshape(n, m) of a flat array, in C order; the call raises ValueError
\* unless the array holds exactly n * m elements.
ReshapeRaises(a, n, m) == Len(a) # n * m

Reshape(a, n, m) == [i \in 1 .. n |-> [j \in 1 .. m |-> a[(i - 1) * m + j]]]

\* images / 255: a float, kept as the exact quotient.
Divide(v, d) == [num |-> v, den |-> d]

\* images.reshape((n, 28, 28, 1)) of an (n, 784) array, in C order.
Reshape4d(a) ==
    [i \in 1 .. Len(a) |->
        [r \in 1 .. Side |-> [c \in 1 .. Side |-> <<a[i][(r - 1) * Side + c]>>]]]

\* keras to_categorical(labels, num_classes): row i is all zeros but for a 1
\* at column labels[i]; indexing raises IndexError for a label that is not
\* below num_classes.
ToCategoricalRaises(ls, num_classes) ==
    \E i \in 1 .. Len(ls) : ls[i] >= num_classes
ToCategorical(ls, num_classes) ==
    [i \in 1 .. Len(ls) |->
        [j \in 1 .. num_classes |-> IF j = ls[i] + 1 THEN 1 ELSE 0]]

\* The files explored.  A label file is the idx1 header and n label bytes;
\* an image file is the idx3 header and a payload whose p-th byte is
\* (p * step) % 256, which tells every record and every pixel of a record
\* from its neighbours.  Both may be cut short or hold extra bytes.
LabelBytes == {0, 9, 10}
PayloadSteps == {1, 3}
Slack == {-1, 0, 1}

LabelsHeader(n) == <<0, 0, 8, 1, 0, 0, 0, n>>
ImagesHeader(n) == <<0, 0, 8, 3, 0, 0, 0, n, 0, 0, 0, Side, 0, 0, 0, Side>>

LabelFiles ==
    {SubSeq(LabelsHeader(0), 1, LabelsOffset - 1)}
    \cup UNION {{LabelsHeader(n) \o p : p \in [1 .. n -> LabelBytes]} :
                   n \in 0 .. MaxLabels}

ImagePayloadLengths ==
    {n * Pixels + d : n \in 0 .. MaxLabels, d \in Slack} \ {-1}

ImageFiles ==
    {SubSeq(ImagesHeader(0), 1, ImagesOffset - 1)}
    \cup {ImagesHeader(len \div Pixels) \o [p \in 1 .. len |-> (p * step) % 256] :
             len \in ImagePayloadLengths, step \in PayloadSteps}

\* split_and_select_random_data is not running.
SamplerIdle ==
    /\ pc = "idle"
    /\ x = None /\ y = None /\ xtest = None /\ ytest = None
    /\ num_target_classes = 0 /\ num_examples_per_class = 0
    /\ target_classes = None
    /\ target_bools = None /\ x_target_all = None /\ y_target_all = None
    /\ x_auxiliary = None /\ y_auxiliary = None
    /\ test_bools = None /\ x_test = None /\ y_test = None
    /\ x_target_labeled = None /\ y_target = None /\ x_target_unlabeled = None
    /\ drawn = <<>>
    /\ result = None

InitLoad ==
    /\ SamplerIdle
    /\ load_pc = "read_labels"
    /\ labels_file \in LabelFiles
    /\ images_file \in ImageFiles
    /\ normalize \in BOOLEAN
    /\ return_4d_tensor \in BOOLEAN
    /\ one_hot \in BOOLEAN
    /\ labels = None /\ images = None /\ load_result = None

\* lines 22-24
ReadLabels ==
    /\ load_pc = "read_labels"
    /\ ~FromBufferRaises(labels_file, LabelsOffset)
    /\ labels' = FromBuffer(labels_file, LabelsOffset)
    /\ load_pc' = "read_images"
    /\ UNCHANGED <<labels_file, images_file, normalize, return_4d_tensor,
                   one_hot, images, load_result, sampler_vars>>

\* lines 23-24, np.frombuffer raises
ReadLabelsRaises ==
    /\ load_pc = "read_labels"
    /\ FromBufferRaises(labels_file, LabelsOffset)
    /\ load_pc' = "raised"
    /\ load_result' = <<"ValueError">>
    /\ UNCHANGED <<labels_file, images_file, normalize, return_4d_tensor,
                   one_hot, labels, images, sampler_vars>>

\* lines 26-28
ReadImages ==
    /\ load_pc = "read_images"
    /\ ~FromBufferRaises(images_file, ImagesOffset)
    /\ LET flat == FromBuffer(images_file, ImagesOffset)
       IN  /\ ~ReshapeRaises(flat, Len(labels), Pixels)
           /\ images' = Reshape(flat, Len(labels), Pixels)
    /\ load_pc' = "normalize"
    /\ UNCHANGED <<labels_file, images_file, normalize, return_4d_tensor,
                   one_hot, labels, load_result, sampler_vars>>

\* lines 27-28, np.frombuffer or reshape raises
ReadImagesRaises ==
    /\ load_pc = "read_images"
    /\ \/ FromBufferRaises(images_file, ImagesOffset)
       \/ /\ ~FromBufferRaises(images_file, ImagesOffset)
          /\ ReshapeRaises(FromBuffer(images_file, ImagesOffset),
                           Len(labels), Pixels)
    /\ load_pc' = "raised"
    /\ load_result' = <<"ValueError">>
    /\ UNCHANGED <<labels_file, images_file, normalize, return_4d_tensor,
                   one_hot, labels, images, sampler_vars>>

\* lines 30-31
Normalize ==
    /\ load_pc = "normalize"
    /\ images' = IF normalize
                 THEN [i \in 1 .. Len(images) |->
                          [j \in 1 .. Len(images[i]) |->
                              Divide(images[i][j], MaxGray)]]
                 ELSE images
    /\ load_pc' = "reshape"
    /\ UNCHANGED <<labels_file, images_file, normalize, return_4d_tensor,
                   one_hot, labels, load_result, sampler_vars>>

\* lines 33-34
ReshapeImages ==
    /\ load_pc = "reshape"
    /\ images' = IF return_4d_tensor THEN Reshape4d(images) ELSE images
    /\ load_pc' = "encode"
    /\ UNCHANGED <<labels_file, images_file, normalize, return_4d_tensor,
                   one_hot, labels, load_result, sampler_vars>>

\* lines 36-37
EncodeLabels ==
    /\ load_pc = "encode"
    /\ ~(one_hot /\ ToCategoricalRaises(labels, MnistClasses))
    /\ labels' = IF one_hot THEN ToCategorical(labels, MnistClasses) ELSE labels
    /\ load_pc' = "return"
    /\ UNCHANGED <<labels_file, images_file, normalize, return_4d_tensor,
                   one_hot, images, load_result, sampler_vars>>

\* line 37, to_categorical raises
EncodeLabelsRaises ==
    /\ load_pc = "encode"
    /\ one_hot /\ ToCategoricalRaises(labels, MnistClasses)
    /\ load_pc' = "raised"
    /\ load_result' = <<"IndexError">>
    /\ UNCHANGED <<labels_file, images_file, normalize, return_4d_tensor,
                   one_hot, labels, images, sampler_vars>>

\* line 39
LoadReturn ==
    /\ load_pc = "return"
    /\ load_pc' = "returned"
    /\ load_result' = <<images, labels>>
    /\ UNCHANGED <<labels_file, images_file, normalize, return_4d_tensor,
                   one_hot, labels, images, sampler_vars>>

NextLoad ==
    \/ ReadLabels
    \/ ReadLabelsRaises
    \/ ReadImages
    \/ ReadImagesRaises
    \/ Normalize
    \/ ReshapeImages
    \/ EncodeLabels
    \/ EncodeLabelsRaises
    \/ LoadReturn

SpecLoad == InitLoad /\ [][NextLoad]_vars

----------------------------------------------------------------------------
(* Vocabulary of the properties, stated on the inputs and outputs alone. *)

ToSet(s) == {s[i] : i \in 1 .. Len(s)}

NoDuplicates(s) == \A i, j \in 1 .. Len(s) : i # j => s[i] # s[j]

Increasing(s) == \A i, j \in 1 .. Len(s) : i < j => s[i] < s[j]

IsOneHot(ys) ==
    \A i \in 1 .. Len(ys) :
        Cardinality({j \in 1 .. Len(ys[i]) : ys[i][j] = 1}) = 1

Returned == pc = "returned"
Raised == pc = "raised"

\* The seven outputs: the returned tuple once the call has returned, and
\* before that what the call has built of them.
OutLabeled == IF Returned THEN result[1] ELSE x_target_labeled
OutLabels == IF Returned THEN result[2] ELSE y_target
OutTest == IF Returned THEN result[3] ELSE x_test
OutTestLabels == IF Returned THEN result[4] ELSE y_test
OutUnlabeled == IF Returned THEN result[5] ELSE x_target_unlabeled
OutAuxiliary == IF Returned THEN result[6] ELSE x_auxiliary
OutAuxiliaryLabels == IF Returned THEN result[7] ELSE y_auxiliary

\* The classes drawn at line 78, as a set.
DrawnClasses == ToSet(target_classes)

\* How many drawn class columns hold a 1 in a label row.
DrawnOnes(row) == Cardinality({c \in DrawnClasses : row[c + 1] = 1})

\* The training rows (by number) with a 1 in column c.
TrainRowsOf(c) == {i \in 1 .. Len(y) : y[i][c + 1] = 1}

\* The training rows that are target rows, and those of class c among them.
TargetRows == {i \in 1 .. Len(y) : DrawnOnes(y[i]) = 1}
TargetRowsOf(c) == TargetRows \cap TrainRowsOf(c)

\* The rows the k-th call returned as labeled: rows [(k-1)n, kn) of the
\* labeled output.
LabeledBlock(k) ==
    SubSeq(OutLabeled, (k - 1) * num_examples_per_class + 1,
           k * num_examples_per_class)

LabelBlock(k) ==
    SubSeq(OutLabels, (k - 1) * num_examples_per_class + 1,
           k * num_examples_per_class)

\* The rows the k-th call returned as unlabeled: the unlabeled output lists,
\* per earlier class, its target rows less the labeled ones.
RECURSIVE UnlabeledStart(_)
UnlabeledStart(k) ==
    IF k = 1 THEN 0
    ELSE UnlabeledStart(k - 1)
         + Cardinality(TargetRowsOf(target_classes[k - 1]))
         - num_examples_per_class

UnlabeledBlock(k) ==
    SubSeq(OutUnlabeled, UnlabeledStart(k) + 1, UnlabeledStart(k + 1))

\* The input is valid for the drawn classes.
ValidInput ==
    /\ IsOneHot(y)
    /\ num_target_classes \in 1 .. Len(y[1])
    /\ num_examples_per_class >= 1
    /\ \A c \in DrawnClasses :
          num_examples_per_class <= Cardinality(TrainRowsOf(c))

----------------------------------------------------------------------------
(* C1: for a valid input (one-hot y, 1 <= num_target_classes <= columns,   *)
(* 1 <= num_examples_per_class <= rows of every drawn class) the call      *)
(* returns, the labeled images and labels have num_target_classes x        *)
(* num_examples_per_class rows, and each drawn class has exactly           *)
(* num_examples_per_class of them.                                         *)
C1_LabeledSize ==
    (ValidInput /\ (Returned \/ Raised)) =>
        /\ Returned
        /\ Len(OutLabeled) = num_target_classes * num_examples_per_class
        /\ Len(OutLabels) = num_target_classes * num_examples_per_class
        /\ \A c \in DrawnClasses :
              /\ Cardinality({i \in 1 .. Len(OutLabeled) :
                                 OutLabeled[i] \in TrainRowsOf(c)})
                    = num_examples_per_class
              /\ Cardinality({i \in 1 .. Len(OutLabels) : OutLabels[i][c + 1] = 1})
                    = num_examples_per_class

C1_Witness ==
    /\ Returned /\ ValidInput
    /\ num_target_classes = 2 /\ num_examples_per_class = 2
    /\ Len(OutLabeled) = 4
    /\ OutUnlabeled # <<>>

(* C2: for every class a call was made for, the rows returned as labeled   *)
(* and as unlabeled are disjoint, none is repeated, and together they are  *)
(* exactly the target rows of that class.                                  *)
C2_LabeledUnlabeledPartition ==
    (pc \in {"sample", "returned"}) =>
        \A k \in 1 .. Len(drawn) :
            LET c == target_classes[k]
                L == LabeledBlock(k)
                U == UnlabeledBlock(k)
            IN  /\ ToSet(L) \cap ToSet(U) = {}
                /\ NoDuplicates(L \o U)
                /\ ToSet(L) \cup ToSet(U) = TargetRowsOf(c)

C2_Witness ==
    /\ Returned
    /\ num_target_classes = 2
    /\ num_examples_per_class = 1
    /\ Len(UnlabeledBlock(1)) = 1
    /\ Len(UnlabeledBlock(2)) = 2

(* C3: after a successful call, auxiliary rows + target rows = training    *)
(* rows; a training row is auxiliary exactly when target_bools does not    *)
(* select it; OutAuxiliary and OutAuxiliaryLabels have the same row count and row  *)
(* j of OutAuxiliaryLabels is the label of row j of OutAuxiliary.                  *)
C3_AuxiliaryComplement ==
    Returned =>
        /\ Len(OutAuxiliary)
             + Cardinality({i \in 1 .. Len(target_bools) : target_bools[i]})
             = Len(x)
        /\ Len(target_bools) = Len(x)
        /\ NoDuplicates(OutAuxiliary)
        /\ \A i \in 1 .. Len(x) : (x[i] \in ToSet(OutAuxiliary)) = ~target_bools[i]
        /\ \A i \in 1 .. Len(x) : target_bools[i] = (i \in TargetRows)
        /\ ToSet(x_target_all) = TargetRows /\ NoDuplicates(x_target_all)
        /\ Len(OutAuxiliaryLabels) = Len(OutAuxiliary)
        /\ \A j \in 1 .. Len(OutAuxiliary) : OutAuxiliaryLabels[j] = y[OutAuxiliary[j]]

C3_Witness ==
    /\ Returned
    /\ Len(OutAuxiliary) = 2
    /\ Len(x_target_all) = 3

(* C4: for one-hot ytest, the returned test subset is exactly the test     *)
(* rows whose class was drawn, in their original order, with their labels. *)
C4_TestSubset ==
    (Returned /\ IsOneHot(ytest)) =>
        /\ ToSet(OutTest) = {i \in 1 .. Len(ytest) :
                               \E c \in DrawnClasses : ytest[i][c + 1] = 1}
        /\ Increasing(OutTest)
        /\ Len(OutTestLabels) = Len(OutTest)
        /\ \A j \in 1 .. Len(OutTest) : OutTestLabels[j] = ytest[OutTest[j]]

C4_Witness ==
    /\ Returned /\ IsOneHot(ytest)
    /\ Len(OutTest) = 1
    /\ Len(ytest) >= 2

ShortClass(k) ==
    num_examples_per_class > Cardinality(TrainRowsOf(target_classes[k]))

(* C6: a call never returns when num_examples_per_class exceeds the        *)
(* training rows of a drawn class, wherever that class is in the draw: it  *)
(* ends raising, with no output.                                           *)
C6_ShortClassRaises ==
    /\ (Returned \/ Raised) =>
          ((\E k \in 1 .. Len(target_classes) : ShortClass(k)) =>
              Raised /\ result = <<"ValueError">>)
    /\ (pc = "sample" /\ Len(drawn) < Len(target_classes) /\ ShortClass(Len(drawn) + 1))
          => (ENABLED SampleClassRaises /\ ~ENABLED SampleClass)
    /\ Returned =>
          \A k \in 1 .. Len(target_classes) :
              Len(LabeledBlock(k)) = num_examples_per_class

C6_Witness ==
    /\ Raised
    /\ Len(drawn) = 1
    /\ Len(target_classes) = 3
    /\ ShortClass(2)
    /\ Len(OutLabeled) = num_examples_per_class

(* C7: the drawn classes are num_target_classes pairwise distinct column   *)
(* indices; with num_target_classes above the column count the call       *)
(* raises before anything is partitioned.                                  *)
C7_ClassSelection ==
    /\ (pc \in {"split", "sample", "returned"}) =>
          /\ Len(target_classes) = num_target_classes
          /\ NoDuplicates(target_classes)
          /\ \A k \in 1 .. Len(target_classes) :
                target_classes[k] \in 0 .. (Len(y[1]) - 1)
    /\ (num_target_classes > Len(y[1])) =>
          /\ pc \in {"draw_classes", "raised"}
          /\ target_classes = None
          /\ target_bools = None /\ x_target_all = None /\ OutAuxiliary = None
          /\ test_bools = None /\ OutTest = None
          /\ OutLabeled = None /\ OutUnlabeled = None

C7_Witness ==
    /\ Raised
    /\ num_target_classes > Len(y[1])
    /\ result = <<"ValueError">>

(* C9: a training row with a 1 in more than one drawn class column is an   *)
(* auxiliary row and is in neither the labeled nor the unlabeled output;   *)
(* a test row with a 1 in more than one drawn class column is not in the   *)
(* test subset.                                                            *)
C9_MultiClassRowsExcluded ==
    (pc \in {"sample", "returned"}) =>
        /\ \A i \in 1 .. Len(y) :
              DrawnOnes(y[i]) > 1 =>
                  /\ x[i] \in ToSet(OutAuxiliary)
                  /\ \E j \in 1 .. Len(OutAuxiliary) :
                        OutAuxiliary[j] = x[i] /\ OutAuxiliaryLabels[j] = y[i]
                  /\ x[i] \notin ToSet(OutLabeled)
                  /\ x[i] \notin ToSet(OutUnlabeled)
        /\ \A i \in 1 .. Len(ytest) :
              DrawnOnes(ytest[i]) > 1 => xtest[i] \notin ToSet(OutTest)

C9_Witness ==
    /\ Returned
    /\ \E i \in 1 .. Len(y) : DrawnOnes(y[i]) > 1
    /\ \E i \in 1 .. Len(ytest) : DrawnOnes(ytest[i]) > 1
    /\ OutLabeled # <<>>
    /\ OutUnlabeled # <<>>

RECURSIVE Ascending(_)
Ascending(S) ==
    IF S = {} THEN <<>>
    ELSE LET m == CHOOSE a \in S : \A b \in S : a <= b
         IN  <<m>> \o Ascending(S \ {m})

RECURSIVE UnlabeledInDrawOrder(_)
UnlabeledInDrawOrder(k) ==
    IF k = 0 THEN <<>>
    ELSE UnlabeledInDrawOrder(k - 1)
         \o Ascending(TargetRowsOf(target_classes[k]) \ ToSet(LabeledBlock(k)))

(* C10: the outputs are laid out in draw order: rows [(k-1)n, kn) of the   *)
(* labeled images and labels belong to the k-th drawn class, label row i   *)
(* is the label of image row i, and the unlabeled output is, class by      *)
(* class in draw order, the class's remaining rows in training order.      *)
C10_DrawOrderLayout ==
    Returned =>
        /\ \A k \in 1 .. num_target_classes :
              /\ Len(LabeledBlock(k)) = num_examples_per_class
              /\ \A i \in 1 .. num_examples_per_class :
                    /\ LabeledBlock(k)[i] \in TrainRowsOf(target_classes[k])
                    /\ LabelBlock(k)[i][target_classes[k] + 1] = 1
        /\ Len(OutLabels) = Len(OutLabeled)
        /\ \A i \in 1 .. Len(OutLabeled) : OutLabels[i] = y[OutLabeled[i]]
        /\ OutUnlabeled = UnlabeledInDrawOrder(num_target_classes)

C10_Witness ==
    /\ Returned
    /\ num_target_classes = 2
    /\ num_examples_per_class = 1
    /\ target_classes[1] > target_classes[2]
    /\ Len(UnlabeledBlock(1)) = 2
    /\ Len(UnlabeledBlock(2)) = 1

LabelCount == Len(labels_file) - LabelsOffset

\* The byte a returned pixel holds: normalisation divided it by 255.
PixelByte(v) == IF normalize THEN v.num ELSE v

\* Pixel j (row-major) of returned image i.
ReturnedPixel(i, j) ==
    LET imgs == load_result[1]
    IN  IF return_4d_tensor
        THEN imgs[i][((j - 1) \div Side) + 1][((j - 1) % Side) + 1][1]
        ELSE imgs[i][j]

\* The label byte a returned label holds.
ReturnedLabel(i) ==
    LET ls == load_result[2]
    IN  IF one_hot
        THEN CHOOSE b \in 0 .. (MnistClasses - 1) :
                ls[i] = [j \in 1 .. MnistClasses |-> IF j = b + 1 THEN 1 ELSE 0]
        ELSE ls[i]

(* C8: whenever load_mnist returns, under any flags, it returns one image  *)
(* per label byte after the 8-byte header; image i is the i-th 784-byte    *)
(* record after the 16-byte header and label i the i-th label byte, in     *)
(* stored order; it only returns when the image payload is exactly 784     *)
(* bytes per label.                                                        *)
C8_LoadPreservesRecords ==
    (load_pc = "returned") =>
        /\ Len(images_file) - ImagesOffset = Pixels * LabelCount
        /\ Len(load_result[1]) = LabelCount
        /\ Len(load_result[2]) = LabelCount
        /\ \A i \in 1 .. LabelCount :
              /\ ReturnedLabel(i) = labels_file[LabelsOffset + i]
              /\ IF one_hot
                 THEN Len(load_result[2][i]) = MnistClasses
                      /\ load_result[2][i][ReturnedLabel(i) + 1] = 1
                 ELSE TRUE
              /\ IF return_4d_tensor
                 THEN Len(load_result[1][i]) = Side
                 ELSE Len(load_result[1][i]) = Pixels
              /\ \A j \in 1 .. Pixels :
                    /\ PixelByte(ReturnedPixel(i, j))
                          = images_file[ImagesOffset + (i - 1) * Pixels + j]
                    /\ normalize => ReturnedPixel(i, j).den = MaxGray

C8_Witness ==
    /\ load_pc = "returned"
    /\ LabelCount = 2
    /\ normalize /\ return_4d_tensor /\ one_hot
    /\ labels_file[LabelsOffset + 1] # labels_file[LabelsOffset + 2]

====
